---- MODULE Spec2Model ----
(***************************************************************************)
(* Model of the SEC Form 4 screener pipeline                               *)
(* (sec_form4_screener_reportlab_summary.py): fetch -> parse -> filter ->  *)
(* report.  Texts are sequences of one-character strings, numbers are      *)
(* exact decimals [n |-> mantissa, e |-> fractional digits] = n / 10^e     *)
(* (binary rounding of Python floats is not represented).                  *)
(***************************************************************************)
EXTENDS Integers, Sequences, FiniteSets, TLC

(***************************************************************************)
(* Bounds of the model                                                     *)
(***************************************************************************)
MaxHits == 2
MaxEntries == 2
MaxTrans == 2

(***************************************************************************)
(* Program constants                                                       *)
(***************************************************************************)
MIN_VALUE == 100000

(***************************************************************************)
(* Characters and decimal numbers                                          *)
(***************************************************************************)
Digits == {"0", "1", "2", "3", "4", "5", "6", "7", "8", "9"}

DigitVal(c) ==
    CASE c = "0" -> 0 [] c = "1" -> 1 [] c = "2" -> 2 [] c = "3" -> 3
      [] c = "4" -> 4 [] c = "5" -> 5 [] c = "6" -> 6 [] c = "7" -> 7
      [] c = "8" -> 8 [] c = "9" -> 9

RECURSIVE Pow10(_)
Pow10(k) == IF k = 0 THEN 1 ELSE 10 * Pow10(k - 1)

RECURSIVE Norm(_, _)
Norm(n, e) ==
    IF e > 0 /\ n % 10 = 0 THEN Norm(n \div 10, e - 1) ELSE [n |-> n, e |-> e]

Zero == [n |-> 0, e |-> 0]
Dec(k) == [n |-> k, e |-> 0]

Max2(a, b) == IF a >= b THEN a ELSE b

Add(a, b) ==
    LET e == Max2(a.e, b.e)
    IN  Norm(a.n * Pow10(e - a.e) + b.n * Pow10(e - b.e), e)

Mul(a, b) == Norm(a.n * b.n, a.e + b.e)

Geq(a, b) ==
    LET e == Max2(a.e, b.e)
    IN  a.n * Pow10(e - a.e) >= b.n * Pow10(e - b.e)

IsZero(a) == a.n = 0

(***************************************************************************)
(* safe_float: keep digits, '.' and '-', then float(); 0.0 when that fails *)
(***************************************************************************)
FloatChars == Digits \cup {".", "-"}

KeepFloatChars(text) == SelectSeq(text, LAMBDA c : c \in FloatChars)

CountOf(text, ch) == Cardinality({i \in 1..Len(text) : text[i] = ch})

\* float() accepts, over the alphabet left by the substitution, an optional
\* leading minus followed by digits with at most one point and at least one digit
FloatAccepts(t) ==
    LET body == IF Len(t) > 0 /\ t[1] = "-" THEN Tail(t) ELSE t
    IN  /\ CountOf(body, "-") = 0
        /\ CountOf(body, ".") <= 1
        /\ \E i \in 1..Len(body) : body[i] \in Digits

RECURSIVE DigitsToInt(_)
DigitsToInt(ds) ==
    IF ds = <<>> THEN 0
    ELSE 10 * DigitsToInt(SubSeq(ds, 1, Len(ds) - 1)) + DigitVal(ds[Len(ds)])

FloatOf(t) ==
    LET neg  == t[1] = "-"
        body == IF neg THEN Tail(t) ELSE t
        dot  == IF \E i \in 1..Len(body) : body[i] = "."
                THEN CHOOSE i \in 1..Len(body) : body[i] = "."
                ELSE Len(body) + 1
        ds   == SelectSeq(body, LAMBDA c : c \in Digits)
        e    == IF dot > Len(body) THEN 0 ELSE Len(body) - dot
        m    == DigitsToInt(ds)
    IN  Norm(IF neg THEN 0 - m ELSE m, e)

safe_float(text) ==
    IF text = <<>> THEN Zero
    ELSE LET t == KeepFloatChars(text)
         IN  IF FloatAccepts(t) THEN FloatOf(t) ELSE Zero

(***************************************************************************)
(* Filing documents.  An element that may be missing is a record           *)
(* [present, text]; a nonDerivativeTransaction element is a record:        *)
(*   codingCode  the transactionCode inside transactionCoding              *)
(*   directCode  a transactionCode outside transactionCoding               *)
(*   amounts     the value/shares/price elements sit inside a              *)
(*               transactionAmounts element                                *)
(*   value       transactionValue                                          *)
(*   shares      transactionShares, [present, nested, text]: its text is   *)
(*               held by a nested value element or directly                *)
(*   price       the same for transactionPricePerShare                     *)
(*   other       text of the remaining elements of the transaction         *)
(*   sep         whitespace between the elements                           *)
(***************************************************************************)
NoNode == [present |-> FALSE, text |-> <<>>]
Node(text) == [present |-> TRUE, text |-> text]
NoAmount == [present |-> FALSE, nested |-> FALSE, text |-> <<>>]
Amount(nested, text) == [present |-> TRUE, nested |-> nested, text |-> text]

Whitespace == {" "}

RECURSIVE LStrip(_)
LStrip(text) ==
    IF text # <<>> /\ text[1] \in Whitespace THEN LStrip(Tail(text)) ELSE text

RECURSIVE RStrip(_)
RStrip(text) ==
    IF text # <<>> /\ text[Len(text)] \in Whitespace
    THEN RStrip(SubSeq(text, 1, Len(text) - 1)) ELSE text

\* tag.get_text(strip=True) of an element holding one text
StrippedText(text) == RStrip(LStrip(text))

\* code of a transaction, as parse_form4_details reads it
TransactionCode(t) ==
    IF t.codingCode.present THEN StrippedText(t.codingCode.text)
    ELSE IF t.directCode.present THEN StrippedText(t.directCode.text)
    ELSE <<>>

\* ta.find("value"): the first element named value below transactionAmounts
FirstValueInAmounts(t) ==
    IF t.shares.present /\ t.shares.nested THEN Node(t.shares.text)
    ELSE IF t.price.present /\ t.price.nested THEN Node(t.price.text)
    ELSE NoNode

\* trans.get_text(): every text of the element, in document order
TransText(t) ==
    t.codingCode.text \o t.sep \o t.directCode.text \o t.sep
      \o t.value.text \o t.sep \o t.shares.text \o t.sep
      \o t.price.text \o t.sep \o t.other

(***************************************************************************)
(* re.findall(r"\$?[\d{1,3},]+\.\d+|\$?[\d,]{6,}", text)                   *)
(***************************************************************************)
AmountClass == Digits \cup {"{", "}", ","}
LongClass == Digits \cup {","}

RECURSIVE RunEnd(_, _, _)
RunEnd(s, j, cls) ==
    IF j <= Len(s) /\ s[j] \in cls THEN RunEnd(s, j + 1, cls) ELSE j

\* first alternative from position j: end of the match (exclusive) or 0
MatchAmount(s, j) ==
    LET k == RunEnd(s, j, AmountClass)
    IN  IF k > j /\ k + 1 <= Len(s) /\ s[k] = "." /\ s[k + 1] \in Digits
        THEN RunEnd(s, k + 1, Digits) ELSE 0

\* second alternative from position j
MatchLong(s, j) ==
    LET k == RunEnd(s, j, LongClass)
    IN  IF k - j >= 6 THEN k ELSE 0

\* a match starting at position i: end (exclusive) or 0
MatchAt(s, i) ==
    LET j == IF s[i] = "$" THEN i + 1 ELSE i
    IN  IF MatchAmount(s, j) # 0 THEN MatchAmount(s, j) ELSE MatchLong(s, j)

RECURSIVE FindAll(_, _)
FindAll(s, i) ==
    IF i > Len(s) THEN <<>>
    ELSE IF MatchAt(s, i) # 0
         THEN <<SubSeq(s, i, MatchAt(s, i) - 1)>> \o FindAll(s, MatchAt(s, i))
         ELSE FindAll(s, i + 1)

RECURSIVE FirstLarge(_)
FirstLarge(nums) ==
    IF nums = <<>> THEN Zero
    ELSE IF Geq(safe_float(nums[1]), Dec(1000)) THEN safe_float(nums[1])
    ELSE FirstLarge(Tail(nums))

NumericScan(t) == FirstLarge(FindAll(TransText(t), 1))

(***************************************************************************)
(* parse_transaction_value                                                 *)
(***************************************************************************)
\* "if node and node.get_text(strip=True)"
HasText(f) == f.present /\ StrippedText(f.text) # <<>>

\* shares / price: None without the element, else safe_float of its text;
\* "if shares and price" holds for a number that is neither None nor zero
Truthy(f) == f.present /\ ~IsZero(safe_float(StrippedText(f.text)))

SharesTimesPrice(t) ==
    IF Truthy(t.shares) /\ Truthy(t.price)
    THEN Mul(safe_float(StrippedText(t.shares.text)),
             safe_float(StrippedText(t.price.text)))
    ELSE NumericScan(t)

parse_transaction_value(t) ==
    IF HasText(t.value)
    THEN safe_float(StrippedText(t.value.text))
    ELSE IF t.amounts /\ HasText(t.value)
    THEN safe_float(StrippedText(t.value.text))
    ELSE IF t.amounts /\ HasText(FirstValueInAmounts(t))
    THEN safe_float(StrippedText(FirstValueInAmounts(t).text))
    ELSE SharesTimesPrice(t)

(***************************************************************************)
(* The documents the remote service may serve for a filing                 *)
(***************************************************************************)
CodeP == <<"P">>
CodeS == <<"S">>

Trans(coding, direct, amounts, value, shares, price, other, sep) ==
    [codingCode |-> coding, directCode |-> direct, amounts |-> amounts,
     value |-> value, shares |-> shares, price |-> price,
     other |-> other, sep |-> sep]

Txt200000 == <<"2", "0", "0", "0", "0", "0">>
TxtMinus150000 == <<"-", "1", "5", "0", "0", "0", "0">>
TxtThreshold == <<"1", "0", "0", ",", "0", "0", "0", ".", "0", "0">>
TxtBelow == <<"$", "9", "9", ",", "9", "9", "9", ".", "9", "9">>
Txt500000 == <<"5", "0", "0", "0", "0", "0">>
Txt1000 == <<"1", "0", "0", "0">>
Txt150 == <<"1", "5", "0", ".", "0", "0">>
TxtNA == <<"N", "/", "A">>
TxtFree == <<"$", "2", "5", "0", ",", "0", "0", "0", ".", "5", "0">>
Sp == <<" ">>

\* purchase, explicit total value
BuyValue == Trans(Node(CodeP), NoNode, TRUE, Node(Txt200000), NoAmount, NoAmount, <<>>, Sp)
\* purchase, explicit negative total value
BuyNegative == Trans(Node(CodeP), NoNode, TRUE, Node(TxtMinus150000), NoAmount, NoAmount, <<>>, Sp)
\* purchase worth exactly the threshold, code as a direct child (older forms)
BuyThreshold == Trans(NoNode, Node(<<" ", "P", " ">>), FALSE, Node(TxtThreshold), NoAmount, NoAmount, <<>>, Sp)
\* purchase just below the threshold
BuyBelow == Trans(Node(CodeP), NoNode, FALSE, Node(TxtBelow), NoAmount, NoAmount, <<>>, Sp)
\* purchase, shares and price as direct text
BuyDirect == Trans(Node(CodeP), NoNode, FALSE, NoNode, Amount(FALSE, Txt1000), Amount(FALSE, Txt150), <<>>, Sp)
\* purchase, shares and price as nested value elements of transactionAmounts
BuyNested == Trans(Node(CodeP), NoNode, TRUE, NoNode, Amount(TRUE, Txt1000), Amount(TRUE, Txt150), <<>>, Sp)
\* purchase, non-numeric total value next to numeric shares and price
BuyValueNA == Trans(Node(CodeP), NoNode, FALSE, Node(TxtNA), Amount(FALSE, Txt1000), Amount(FALSE, Txt150), <<>>, Sp)
\* purchase with degraded structure: the amount appears in free text only
BuyFreeText == Trans(Node(CodeP), NoNode, FALSE, NoNode, NoAmount, NoAmount, TxtFree, Sp)
\* sale, explicit total value
SellValue == Trans(Node(CodeS), NoNode, TRUE, Node(Txt500000), NoAmount, NoAmount, <<>>, Sp)
\* sale giving shares and price, with an amount in free text
SellShares == Trans(Node(CodeS), NoNode, TRUE, NoNode, Amount(TRUE, Txt1000), Amount(TRUE, Txt150), TxtFree, Sp)
\* no transaction code at all
Uncoded == Trans(NoNode, NoNode, FALSE, Node(Txt200000), NoAmount, NoAmount, <<>>, <<>>)

Transactions ==
    {BuyValue, BuyNegative, BuyThreshold, BuyBelow, BuyDirect, BuyNested,
     BuyValueNA, BuyFreeText, SellValue, SellShares, Uncoded}

RECURSIVE SeqsUpTo(_, _)
SeqsUpTo(S, k) ==
    IF k = 0 THEN {<<>>}
    ELSE SeqsUpTo(S, k - 1)
           \cup {Append(q, x) : q \in {r \in SeqsUpTo(S, k - 1) : Len(r) = k - 1}, x \in S}

NoNames == [issuerName |-> "", rptOwnerName |-> ""]
AcmeNames == [issuerName |-> "ACME Corp", rptOwnerName |-> "Jane Doe"]
Names == {NoNames, AcmeNames}

DocResponse(kind, status, names, trans) ==
    [kind |-> kind, status |-> status, issuerName |-> names.issuerName,
     rptOwnerName |-> names.rptOwnerName, trans |-> trans]

\* every parsed document of at most MaxTrans transactions
ParsedDocuments ==
    {DocResponse("response", 200, nm, tr) :
       nm \in Names, tr \in SeqsUpTo(Transactions, MaxTrans)}

\* the parsed documents the pipeline is run on: without transactions, above,
\* at and below the threshold, a sale next to a purchase, a sale alone
Documents ==
    {DocResponse("response", 200, NoNames, <<>>),
     DocResponse("response", 200, AcmeNames, <<BuyValue>>),
     DocResponse("response", 200, NoNames, <<BuyThreshold>>),
     DocResponse("response", 200, AcmeNames, <<BuyBelow>>),
     DocResponse("response", 200, NoNames, <<SellValue, BuyDirect>>),
     DocResponse("response", 200, AcmeNames, <<SellValue>>)}

\* the request raises; the service answers with a non-200 status; the body
\* makes the parser raise; the body is parsed
DocResponses ==
    {DocResponse("exception", 0, NoNames, <<>>)}
      \cup {DocResponse("response", st, NoNames, <<>>) : st \in {403, 404}}
      \cup {DocResponse("unparsable", 200, NoNames, <<>>)}
      \cup Documents

NoDocument == DocResponse("none", 0, NoNames, <<>>)

(***************************************************************************)
(* Filing references.  A URL is [stem, suffix]; an accession number is the *)
(* sequence of its dash-separated segments; a title is a sequence of       *)
(* words ("EN DASH" is the dash fetch_from_edgar_next writes, "-" a        *)
(* hyphen).                                                                *)
(***************************************************************************)
Url(stem, suffix) == [stem |-> stem, suffix |-> suffix]
NoUrl == Url(<<>>, "")

\* the accession number as written, dashes between its segments;
\* accession.replace("-", "") is the segments alone
RECURSIVE Dashed(_)
Dashed(accession) ==
    IF Len(accession) <= 1 THEN accession
    ELSE <<accession[1], "-">> \o Dashed(Tail(accession))

ArchiveLink(cik, accession) ==
    Url(<<cik, "/">> \o accession \o <<"/">> \o Dashed(accession),
        "-index.htm")

Filing(title, link, date) == [title |-> title, link_html |-> link, date |-> date]

(***************************************************************************)
(* fetch_from_edgar_next                                                   *)
(***************************************************************************)
Hit(isDict, accession, ciks, cik, displayNames, companyName, filedAt, link) ==
    [isDict |-> isDict, accession |-> accession, ciks |-> ciks, cik |-> cik,
     displayNames |-> displayNames, companyName |-> companyName,
     filedAt |-> filedAt, link |-> link]

HitArchive == Hit(TRUE, <<"0001", "24", "000007">>, <<"320193">>, "",
                  <<"ACME Corp">>, "", "2024-05-01", NoUrl)
HitLink == Hit(TRUE, <<>>, <<>>, "", <<>>, "", "", Url(<<"beta">>, ".htm"))
HitNoLink == Hit(TRUE, <<>>, <<>>, "1045810", <<>>, "Gamma Inc", "2024-05-02", NoUrl)
HitNotDict == Hit(FALSE, <<>>, <<>>, "", <<>>, "", "", NoUrl)

Hits == {HitArchive, HitLink, HitNoLink, HitNotDict}

HitCik(h) == IF h.ciks # <<>> THEN h.ciks[1] ELSE h.cik
HitCompany(h) == IF h.displayNames # <<>> THEN h.displayNames[1] ELSE h.companyName

HitLinkHtml(h) ==
    IF h.accession # <<>> /\ HitCik(h) # ""
    THEN ArchiveLink(HitCik(h), h.accession)
    ELSE h.link

HitTitle(h) ==
    IF HitCompany(h) # "" THEN <<"Form 4", "EN DASH", HitCompany(h)>> ELSE <<"Form 4">>

\* the filings built from the hits; a hit without link is skipped
RECURSIVE HitFilings(_)
HitFilings(hits) ==
    IF hits = <<>> THEN <<>>
    ELSE (IF HitLinkHtml(hits[1]) = NoUrl THEN <<>>
          ELSE <<Filing(HitTitle(hits[1]), HitLinkHtml(hits[1]), hits[1].filedAt)>>)
           \o HitFilings(Tail(hits))

EdgarResponse(kind, shape, hits) == [kind |-> kind, shape |-> shape, hits |-> hits]

\* the request raises, the status is not 2xx, the body is not JSON, or the
\* body is JSON of one of the shapes the code looks for or of another shape
EdgarResponses ==
    {EdgarResponse(k, "none", <<>>) : k \in {"exception", "http_error", "bad_json"}}
      \cup {EdgarResponse("json", sh, hs) :
              sh \in {"hits.hits", "hits", "results"}, hs \in SeqsUpTo(Hits, MaxHits)}
      \cup {EdgarResponse("json", "other", <<>>)}

fetch_from_edgar_next(resp) ==
    IF resp.kind # "json" THEN <<>>
    ELSE IF resp.shape = "other" THEN <<>>
    ELSE IF \E i \in 1..Len(resp.hits) : ~resp.hits[i].isDict THEN <<>>
    ELSE HitFilings(resp.hits)

(***************************************************************************)
(* fetch_from_rss                                                          *)
(***************************************************************************)
Entry(title, href, updated) == [title |-> title, href |-> href, updated |-> updated]

EntryFull == Entry(<<"Form 4", "-", "Delta Ltd">>, Url(<<"delta">>, "-index.htm"), "2024-05-03")
EntryNoLink == Entry(<<"Form 4", "-", "Echo SA">>, NoUrl, "2024-05-03")
EntryBare == Entry(<<>>, Url(<<"foxtrot">>, ""), "")

Entries == {EntryFull, EntryNoLink, EntryBare}

RECURSIVE EntryFilings(_)
EntryFilings(entries) ==
    IF entries = <<>> THEN <<>>
    ELSE (IF entries[1].href = NoUrl THEN <<>>
          ELSE <<Filing(IF entries[1].title # <<>> THEN entries[1].title ELSE <<"Form 4">>,
                        entries[1].href, entries[1].updated)>>)
           \o EntryFilings(Tail(entries))

RssResponse(kind, entries) == [kind |-> kind, entries |-> entries]

RssResponses ==
    {RssResponse(k, <<>>) : k \in {"exception", "http_error"}}
      \cup {RssResponse("feed", es) : es \in SeqsUpTo(Entries, MaxEntries)}

fetch_from_rss(resp) ==
    IF resp.kind # "feed" THEN <<>> ELSE EntryFilings(resp.entries)

(***************************************************************************)
(* parse_form4_details: helpers                                            *)
(***************************************************************************)
\* link_html.replace("-index.htm", ".xml"), then ".htm" -> ".xml" at the end
XmlUrl(link) ==
    IF link.suffix \in {"-index.htm", ".htm"} THEN Url(link.stem, ".xml") ELSE link

\* title.replace("Form 4 -", "").strip()
RECURSIVE TitleIssuer(_)
TitleIssuer(title) ==
    IF title = <<>> THEN <<>>
    ELSE IF Len(title) >= 2 /\ title[1] = "Form 4" /\ title[2] = "-"
    THEN TitleIssuer(SubSeq(title, 3, Len(title)))
    ELSE <<title[1]>> \o TitleIssuer(Tail(title))

\* variant: the code test is missing
IsPurchaseBroken(code) == TRUE

\* "if code != 'P': continue"
IsPurchase(code) == code = CodeP

\* parse_transaction_value over the transactions of the model, tabulated
TransactionValue == [t \in Transactions |-> parse_transaction_value(t)]

\* one pass of the loop over the transactions
AddTransaction(total, t) ==
    IF IsPurchase(TransactionCode(t)) THEN Add(total, TransactionValue[t])
    ELSE total

\* variant: a strict comparison
MeetsThresholdStrict(total) == ~Geq(Dec(MIN_VALUE), total)

\* "if total_value >= MIN_VALUE"
MeetsThreshold(total) == Geq(total, Dec(MIN_VALUE))

Detail(filing, document, total) ==
    [issuer |-> IF document.issuerName # "" THEN <<document.issuerName>>
                ELSE TitleIssuer(filing.title),
     insider |-> IF document.rptOwnerName # "" THEN document.rptOwnerName
                 ELSE "Unknown",
     date |-> filing.date,
     value |-> total,
     link_html |-> filing.link_html]

(***************************************************************************)
(* Reporter: "${value:,.0f}", generate_pdf, generate_summary_file          *)
(***************************************************************************)
EmptyMessage == "No insider purchases > 100k USD found today."

\* round to the nearest integer, ties to the even one
RoundHalfEven(v) ==
    LET d == Pow10(v.e)
        q == v.n \div d
        r == v.n % d
    IN  IF 2 * r < d THEN q
        ELSE IF 2 * r > d THEN q + 1
        ELSE IF q % 2 = 0 THEN q ELSE q + 1

DigitChar(k) == CHOOSE c \in Digits : DigitVal(c) = k

RECURSIVE IntDigits(_)
IntDigits(k) ==
    IF k < 10 THEN <<DigitChar(k)>>
    ELSE Append(IntDigits(k \div 10), DigitChar(k % 10))

\* a comma before every group of three digits counted from the right
RECURSIVE Grouped(_)
Grouped(ds) ==
    IF Len(ds) <= 3 THEN ds
    ELSE Grouped(SubSeq(ds, 1, Len(ds) - 3)) \o <<",">> \o SubSeq(ds, Len(ds) - 2, Len(ds))

FormatValue(v) ==
    LET k == RoundHalfEven(v)
    IN  IF k < 0 THEN <<"$", "-">> \o Grouped(IntDigits(0 - k))
        ELSE <<"$">> \o Grouped(IntDigits(k))

Row(d) ==
    [issuer |-> d.issuer, insider |-> d.insider, date |-> d.date,
     value |-> FormatValue(d.value), link_html |-> d.link_html]

Rows(details) == [i \in 1..Len(details) |-> Row(details[i])]

NotWritten == [written |-> FALSE, messages |-> <<>>, rows |-> <<>>]

generate_pdf(details) ==
    IF details = <<>>
    THEN [written |-> TRUE, messages |-> <<EmptyMessage>>, rows |-> <<>>]
    ELSE [written |-> TRUE, messages |-> <<>>, rows |-> Rows(details)]

\* variant: the message is written before the rows, whatever the results
generate_summary_file_always_message(details) ==
    [written |-> TRUE, messages |-> <<EmptyMessage>>, rows |-> Rows(details)]

generate_summary_file(details) ==
    IF details = <<>>
    THEN [written |-> TRUE, messages |-> <<EmptyMessage>>, rows |-> <<>>]
    ELSE [written |-> TRUE, messages |-> <<>>, rows |-> Rows(details)]

\* what the EDGAR Next request met: the kind and shape of the response, and
\* whether one of its hits was not an object
Met(resp) ==
    [kind |-> resp.kind, shape |-> resp.shape,
     badHit |-> \E i \in 1..Len(resp.hits) : ~resp.hits[i].isDict]

NotContacted == [kind |-> "none", shape |-> "none", badHit |-> FALSE]

(***************************************************************************)
(* main                                                                    *)
(*   pc           position in main                                         *)
(*   edgar, rss   what the two source requests met ("none": not contacted) *)
(*   edgarFilings the list fetch_from_edgar_next returned                  *)
(*   filings      the list fetch_recent_filings returned                   *)
(*   idx          position of the for loop over the filings                *)
(*   xml_url, document  the request for the current filing and its answer  *)
(*   tidx, total_value  the loop over the transactions of the document     *)
(*   outcomes     per processed filing: did it fail, its aggregate value   *)
(*   results, pdf, summary  the report                                     *)
(***************************************************************************)
VARIABLES pc, edgar, rss, edgarFilings, filings, idx, xml_url, document,
          tidx, total_value, outcomes, results, pdf, summary

vars == <<pc, edgar, rss, edgarFilings, filings, idx, xml_url, document,
          tidx, total_value, outcomes, results, pdf, summary>>

Init ==
    /\ pc = "start"
    /\ edgar = NotContacted
    /\ rss = "none"
    /\ edgarFilings = <<>>
    /\ filings = <<>>
    /\ idx = 1
    /\ xml_url = NoUrl
    /\ document = NoDocument
    /\ tidx = 1
    /\ total_value = Zero
    /\ outcomes = <<>>
    /\ results = <<>>
    /\ pdf = NotWritten
    /\ summary = NotWritten

\* variant: the feed is read whatever EDGAR Next returned
NeedsRssAlways(found) == TRUE

\* fetch_recent_filings: "if filings: return filings"
NeedsRss(found) == found = <<>>

\* fetch_recent_filings, first strategy
FetchEdgarNext ==
    /\ pc = "start"
    /\ \E resp \in EdgarResponses :
         /\ edgar' = Met(resp)
         /\ edgarFilings' = fetch_from_edgar_next(resp)
         /\ filings' = fetch_from_edgar_next(resp)
         /\ pc' = IF NeedsRss(fetch_from_edgar_next(resp)) THEN "rss" ELSE "loop"
    /\ UNCHANGED <<rss, idx, xml_url, document, tidx, total_value, outcomes,
                   results, pdf, summary>>

\* fetch_recent_filings, fallback strategy
FetchRss ==
    /\ pc = "rss"
    /\ \E resp \in RssResponses :
         /\ rss' = resp.kind
         /\ filings' = fetch_from_rss(resp)
    /\ pc' = "loop"
    /\ UNCHANGED <<edgar, edgarFilings, idx, xml_url, document, tidx,
                   total_value, outcomes, results, pdf, summary>>

Outcome(failed, total, reported) ==
    [failed |-> failed, total |-> total, reported |-> reported]

\* variant: the exception is not caught and ends the run
SkipFilingUncaught ==
    /\ pc' = "crashed"
    /\ idx' = idx + 1
    /\ outcomes' = Append(outcomes, Outcome(TRUE, Zero, FALSE))
    /\ UNCHANGED results

\* variant: a failure ends the loop over the filings
SkipFilingAndRest ==
    /\ pc' = "loop"
    /\ idx' = Len(filings) + 1
    /\ outcomes' = Append(outcomes, Outcome(TRUE, Zero, FALSE))
    /\ UNCHANGED results

\* parse_form4_details returns None on a non-200 status or an exception, and
\* main goes on with the next filing
SkipFiling ==
    /\ pc' = "loop"
    /\ idx' = idx + 1
    /\ outcomes' = Append(outcomes, Outcome(TRUE, Zero, FALSE))
    /\ UNCHANGED results

\* parse_form4_details up to the loop over the transactions
FetchDocument ==
    /\ pc = "loop"
    /\ idx <= Len(filings)
    /\ xml_url' = XmlUrl(filings[idx].link_html)
    /\ \E resp \in DocResponses :
         /\ document' = resp
         /\ IF resp.kind = "response" /\ resp.status = 200
            THEN /\ pc' = "trans"
                 /\ UNCHANGED <<idx, outcomes, results>>
            ELSE SkipFiling
    /\ tidx' = 1
    /\ total_value' = Zero
    /\ UNCHANGED <<edgar, rss, edgarFilings, filings, pdf, summary>>

\* one transaction of the document
TransactionStep ==
    /\ pc = "trans"
    /\ tidx <= Len(document.trans)
    /\ total_value' = AddTransaction(total_value, document.trans[tidx])
    /\ tidx' = tidx + 1
    /\ UNCHANGED <<pc, edgar, rss, edgarFilings, filings, idx, xml_url,
                   document, outcomes, results, pdf, summary>>

\* variant: the detail is inserted at the front
AppendResultFirst(rs, d) == <<d>> \o rs

\* main: "results.append(d)"
AppendResult(rs, d) == Append(rs, d)

\* the threshold test that ends parse_form4_details, and main's "if d"
Threshold ==
    /\ pc = "trans"
    /\ tidx > Len(document.trans)
    /\ results' = IF MeetsThreshold(total_value)
                  THEN AppendResult(results, Detail(filings[idx], document, total_value))
                  ELSE results
    /\ outcomes' = Append(outcomes,
                          Outcome(FALSE, total_value, MeetsThreshold(total_value)))
    /\ idx' = idx + 1
    /\ pc' = "loop"
    /\ UNCHANGED <<edgar, rss, edgarFilings, filings, xml_url, document,
                   tidx, total_value, pdf, summary>>

GeneratePdf ==
    /\ pc = "loop"
    /\ idx > Len(filings)
    /\ pdf' = generate_pdf(results)
    /\ pc' = "summary"
    /\ UNCHANGED <<edgar, rss, edgarFilings, filings, idx, xml_url, document,
                   tidx, total_value, outcomes, results, summary>>

GenerateSummaryFile ==
    /\ pc = "summary"
    /\ summary' = generate_summary_file(results)
    /\ pc' = "done"
    /\ UNCHANGED <<edgar, rss, edgarFilings, filings, idx, xml_url, document,
                   tidx, total_value, outcomes, results, pdf>>

Next ==
    \/ FetchEdgarNext
    \/ FetchRss
    \/ FetchDocument
    \/ TransactionStep
    \/ Threshold
    \/ GeneratePdf
    \/ GenerateSummaryFile

Spec == Init /\ [][Next]_vars

\* main runs to its end: no step waits on anything but its own request
FairSpec == Spec /\ WF_vars(Next)

(***************************************************************************)
(* The detail parser on its own: main has fetched one filing, from either  *)
(* source, and the service has served any document of ParsedDocuments.     *)
(***************************************************************************)
ParseInit ==
    /\ pc = "trans"
    /\ \/ /\ edgar = Met(EdgarResponse("json", "hits", <<HitArchive>>))
          /\ rss = "none"
          /\ edgarFilings = fetch_from_edgar_next(EdgarResponse("json", "hits", <<HitArchive>>))
          /\ filings = edgarFilings
       \/ /\ edgar = Met(EdgarResponse("http_error", "none", <<>>))
          /\ rss = "feed"
          /\ edgarFilings = <<>>
          /\ filings = fetch_from_rss(RssResponse("feed", <<EntryFull>>))
    /\ idx = 1
    /\ xml_url = XmlUrl(filings[1].link_html)
    /\ document \in ParsedDocuments
    /\ tidx = 1
    /\ total_value = Zero
    /\ outcomes = <<>>
    /\ results = <<>>
    /\ pdf = NotWritten
    /\ summary = NotWritten

ParseNext ==
    \/ TransactionStep
    \/ Threshold

ParseSpec == ParseInit /\ [][ParseNext]_vars

(***************************************************************************)
(* Properties                                                              *)
(***************************************************************************)
Fetched == pc \notin {"start", "rss"}

\* the EDGAR Next request failed: exception, non-2xx status, a body that is
\* not JSON, or JSON of an unexpected shape
EdgarFailed ==
    \/ edgar.kind \in {"exception", "http_error", "bad_json"}
    \/ edgar.kind = "json" /\ (edgar.shape = "other" \/ edgar.badHit)

RssFailed == rss \in {"exception", "http_error"}

\* C1: the strategies are tried in the order EDGAR Next, RSS; the RSS feed is
\* contacted only after EDGAR Next yielded an empty list; a non-empty EDGAR
\* Next list is the result; when both strategies fail the result is empty.
C1_SourceOrder ==
    /\ rss # "none" => edgar.kind # "none" /\ edgarFilings = <<>>
    /\ Fetched /\ edgarFilings # <<>> => filings = edgarFilings /\ rss = "none"
    /\ Fetched /\ edgarFilings = <<>> => rss # "none"
    /\ Fetched /\ EdgarFailed /\ RssFailed => filings = <<>>
    /\ EdgarFailed => edgarFilings = <<>>

C1_Witness ==
    /\ pc = "loop"
    /\ edgar.kind = "json" /\ edgar.badHit
    /\ rss = "feed"
    /\ filings # <<>>

\* C2: whatever the source requests and the document requests meet, main
\* reaches its end with every listed filing processed and both artifacts
\* written.
C2_RunCompletes ==
    <>(/\ pc = "done"
       /\ Len(outcomes) = Len(filings)
       /\ pdf.written
       /\ summary.written)

C2_Witness ==
    /\ pc = "done"
    /\ pdf.written /\ summary.written
    /\ Len(outcomes) = 2
    /\ outcomes[1].failed
    /\ document.kind = "unparsable"

HasMessage(artifact) ==
    \E i \in 1..Len(artifact.messages) : artifact.messages[i] = EmptyMessage

\* C3: a written artifact carries the empty-state message iff the result
\* sequence is empty, and then it carries no result row; with an empty filing
\* list, or with non-2xx answers from both sources, the finished run has the
\* message in both artifacts.
C3_EmptyState ==
    /\ pdf.written =>
         /\ HasMessage(pdf) <=> results = <<>>
         /\ Len(pdf.rows) = Len(results)
    /\ summary.written =>
         /\ HasMessage(summary) <=> results = <<>>
         /\ Len(summary.rows) = Len(results)
    /\ pc = "done" /\ (filings = <<>> \/ (edgar.kind = "http_error" /\ rss = "http_error")) =>
         /\ HasMessage(pdf) /\ pdf.rows = <<>>
         /\ HasMessage(summary) /\ summary.rows = <<>>

C3_Witness ==
    /\ pc = "done"
    /\ edgar.kind = "http_error"
    /\ rss = "http_error"
    /\ summary.messages = <<EmptyMessage>>
    /\ pdf.messages = <<EmptyMessage>>

\* what the processed filings that did not fail contribute to the report
RECURSIVE ReportedUpTo(_)
ReportedUpTo(i) ==
    IF i = 0 THEN <<>>
    ELSE IF ~outcomes[i].failed /\ outcomes[i].reported
    THEN Append(ReportedUpTo(i - 1),
                [value |-> outcomes[i].total, link_html |-> filings[i].link_html])
    ELSE ReportedUpTo(i - 1)

ResultEntries ==
    [k \in 1..Len(results) |->
       [value |-> results[k].value, link_html |-> results[k].link_html]]

\* C4: a filing whose request or parsing fails yields no result; the results
\* are those of the other filings alone, with their own values, and the loop
\* goes on to the last filing.
C4_FailureIsLocal ==
    /\ \A i \in 1..Len(outcomes) : outcomes[i].failed => ~outcomes[i].reported
    /\ pc \in {"loop", "summary", "done"} =>
         /\ Len(outcomes) = idx - 1
         /\ ResultEntries = ReportedUpTo(Len(outcomes))
    /\ pc \in {"summary", "done"} => Len(outcomes) = Len(filings)

C4_Witness ==
    /\ pc = "done"
    /\ Len(outcomes) = 2
    /\ outcomes[1].failed
    /\ outcomes[2].reported
    /\ Len(results) = 1

AtLeastThreshold(v) == v.n >= MIN_VALUE * Pow10(v.e)

\* C5: a parsed filing is in the results iff its aggregate value is at least
\* MIN_VALUE, and every reported value is at least MIN_VALUE.
C5_ThresholdInclusive ==
    /\ \A i \in 1..Len(outcomes) :
         ~outcomes[i].failed =>
            (outcomes[i].reported <=> AtLeastThreshold(outcomes[i].total))
    /\ Len(results) =
         Cardinality({i \in 1..Len(outcomes) :
                        ~outcomes[i].failed /\ AtLeastThreshold(outcomes[i].total)})
    /\ \A k \in 1..Len(results) : AtLeastThreshold(results[k].value)

C5_Witness ==
    /\ pc = "loop"
    /\ Len(outcomes) = 1
    /\ outcomes[1].total = Dec(MIN_VALUE)
    /\ Len(results) = 1
    /\ results[1].value = Dec(MIN_VALUE)

NoWhitespace(text) == SelectSeq(text, LAMBDA c : c \notin Whitespace)

\* the transaction carries the purchase code in one of its code elements
CarriesPurchaseCode(t) ==
    \/ t.codingCode.present /\ NoWhitespace(t.codingCode.text) = <<"P">>
    \/ t.directCode.present /\ NoWhitespace(t.directCode.text) = <<"P">>

InTransaction == pc = "trans" /\ tidx <= Len(document.trans)
AfterTransactions == pc = "trans" /\ tidx > Len(document.trans)

\* C6: a transaction without the purchase code leaves the aggregate unchanged,
\* and a document without any purchase has aggregate 0 and is not reported.
C6_OnlyPurchasesCount ==
    [][/\ InTransaction /\ ~CarriesPurchaseCode(document.trans[tidx])
            => total_value' = total_value
       /\ AfterTransactions
            /\ (\A i \in 1..Len(document.trans) : ~CarriesPurchaseCode(document.trans[i]))
            => total_value = Zero /\ results' = results]_vars

C6_Witness ==
    /\ pc = "trans"
    /\ tidx = 2
    /\ document.trans[1] = SellValue
    /\ total_value = Zero

\* a text that is a plain positive decimal number
PlainNumber(text) ==
    /\ \A i \in 1..Len(text) : text[i] \in Digits \cup {"."}
    /\ CountOf(text, ".") <= 1
    /\ \E i \in 1..Len(text) : text[i] \in Digits \ {"0"}

SharesAndPriceOnly(t) ==
    /\ ~t.value.present
    /\ t.shares.present /\ PlainNumber(t.shares.text)
    /\ t.price.present /\ PlainNumber(t.price.text)

\* C7: a purchase giving only shares S and price P (S, P > 0) adds S * P to
\* the aggregate, in the direct-text layout and in the layout with nested
\* value elements inside transactionAmounts.
C7_SharesTimesPrice ==
    [][InTransaction /\ CarriesPurchaseCode(document.trans[tidx])
         /\ SharesAndPriceOnly(document.trans[tidx])
         => total_value' = Add(total_value,
                               Mul(FloatOf(document.trans[tidx].shares.text),
                                   FloatOf(document.trans[tidx].price.text)))]_vars

ExplicitNumber(text) ==
    /\ text # <<>>
    /\ \A i \in 1..Len(text) : text[i] \in Digits
 
\* C8: with a purchase of explicit numeric value V in the document, the
\* aggregate is at least V whatever the other transactions are.
C8_AggregateAtLeastValue ==
    AfterTransactions =>
       \A i \in 1..Len(document.trans) :
          CarriesPurchaseCode(document.trans[i])
            /\ document.trans[i].value.present
            /\ ExplicitNumber(document.trans[i].value.text)
          => Geq(total_value, FloatOf(document.trans[i].value.text))

\* a text that reads as a number: digits with separators, at most one point
NumericText(text) ==
    /\ \A i \in 1..Len(text) : text[i] \in Digits \cup {".", ",", "$", "-"}
    /\ \E i \in 1..Len(text) : text[i] \in Digits

\* the value of one purchase by the priority (a) explicit value, (b) shares
\* times price, (c) numeric-text scan, else 0
PriorityValue(t) ==
    IF t.value.present /\ NumericText(t.value.text)
    THEN safe_float(t.value.text)
    ELSE IF t.shares.present /\ NumericText(t.shares.text)
              /\ t.price.present /\ NumericText(t.price.text)
    THEN Mul(safe_float(t.shares.text), safe_float(t.price.text))
    ELSE NumericScan(t)

\* C9: the value of each purchase follows the priority (a), (b), (c), 0; a
\* non-numeric explicit value does not keep shares * price from being used.
C9_ValuePriority ==
    [][InTransaction /\ CarriesPurchaseCode(document.trans[tidx])
         => total_value' = Add(total_value, PriorityValue(document.trans[tidx]))]_vars

Reference(x) == [link_html |-> x.link_html, date |-> x.date]

RECURSIVE IsSubsequence(_, _)
IsSubsequence(xs, ys) ==
    IF xs = <<>> THEN TRUE
    ELSE IF ys = <<>> THEN FALSE
    ELSE IF Reference(xs[1]) = Reference(ys[1]) THEN IsSubsequence(Tail(xs), Tail(ys))
    ELSE IsSubsequence(xs, Tail(ys))

\* C10: the results are a subsequence of the fetched filing list, and the
\* summary has one line per result, in the order of the results.
C10_ListingOrder ==
    /\ Fetched => IsSubsequence(results, filings)
    /\ summary.written /\ results # <<>> =>
         /\ Len(summary.rows) = Len(results)
         /\ \A k \in 1..Len(results) :
              /\ summary.rows[k].link_html = results[k].link_html
              /\ summary.rows[k].issuer = results[k].issuer
              /\ summary.rows[k].value = FormatValue(results[k].value)

C10_Witness ==
    /\ pc = "done"
    /\ Len(results) = 2
    /\ results[1].link_html # results[2].link_html
    /\ Len(summary.rows) = 2
====
